---- MODULE Spec2Model ----
(***************************************************************************)
(* Model of the photo-restoration worker (src/unnamed/part_000, the        *)
(* classic worker script after the layout component): the one-time load of *)
(* the OpenCV runtime, the 'message' handler, processBuffer and its stage  *)
(* helpers, and the messages the worker posts back; and of the page that   *)
(* drives it (src/app/page.tsx): the selected file, the sliders, the       *)
(* button and the promise that awaits the worker's answer.                 *)
(*                                                                         *)
(* JavaScript runs each synchronous segment to completion; a run can be    *)
(* overtaken by another handler only at an await.  The variable cpu holds  *)
(* the request whose synchronous segment is executing (0 when none is).    *)
(***************************************************************************)
EXTENDS Integers, Sequences, FiniteSets, TLC

\* Number of 'process' requests the host posts to the worker.
MaxReq == 2

\* Number of calls into the runtime or the platform (a cv call, a canvas
\* call, convertToBlob, arrayBuffer) that fail spontaneously.
MaxFaults == 1

Ids == 1..MaxReq

Max(a, b) == IF a >= b THEN a ELSE b
Min(a, b) == IF a <= b THEN a ELSE b

Range(s) == {s[i] : i \in 1..Len(s)}

VARIABLES
    cvReady,      \* module-level promise: "null", "pending", "resolved", "rejected"
    loads,        \* how many times importScripts(opencv.js) has been invoked
    ensureCalls,  \* how many times ensureCv() has been called
    readyChain,   \* ensureCv().then(..).catch(..): "registered", "then" or "catch" ran
    readyPosted,  \* how many {type:'ready'} messages the worker has posted
    inbox,        \* the 'process' messages posted to the worker, in order
    run,          \* per request: the locals of its handler / processBuffer call
    live,         \* cv handles (Mat, MatVector) allocated and not yet deleted
    deleted,      \* cv handles on which delete() has succeeded
    misuse,       \* cv handles on which delete() was called after deletion
    outbox,       \* the 'done' / 'error' messages the worker has posted
    cpu,          \* request whose synchronous segment is running, 0 if none
    faults,       \* how many runtime or platform calls have failed spontaneously
    host,         \* the page: its React state and the request it awaits
    calc,         \* the last evaluation of a pure helper, with its inputs
    platform      \* how the browser words its exceptions, once one was read

vars == <<cvReady, loads, ensureCalls, readyChain, readyPosted, inbox, run, live, deleted,
          misuse, outbox, cpu, faults, host, calc, platform>>

----------------------------------------------------------------------------
(* Options and requests *)

Opt(dn, sc, co, sa, sh, au, mx) ==
    [denoise |-> dn, scratchRemoval |-> sc, contrast |-> co, saturation |-> sa,
     sharpen |-> sh, auto |-> au, maxSize |-> mx]

\* Values on both sides of, at the ends of, and outside every declared range.
DenoiseVals    == {-3, 0, 12, 31}
ScratchVals    == {0, 35, 101}
ContrastVals   == {-51, 0, 10}
SaturationVals == {-51, 0, 8}
SharpenVals    == {0, 1, 3}
MaxSizeVals    == {0, 800}

AllOptions ==
    {Opt(dn, sc, co, sa, sh, au, mx) :
        dn \in DenoiseVals, sc \in ScratchVals, co \in ContrastVals,
        sa \in SaturationVals, sh \in SharpenVals, au \in BOOLEAN,
        mx \in MaxSizeVals}

\* The option records the host posts when several requests are in flight:
\* the sliders' initial values (sharpen 0.8 taken as 1), and the same with the
\* contrast slider at 0.
HostDefaults == Opt(12, 35, 10, 8, 1, TRUE, 2000)
NoContrast   == Opt(12, 35, 0, 8, 1, TRUE, 2000)
Presets      == {HostDefaults, NoContrast}

\* A file: its name, whether its bytes decode as an image and, if so, the
\* width and height of the decoded bitmap.
Image(name, readable, w, h) ==
    [name |-> name, readable |-> readable, width |-> w, height |-> h]

Landscape == Image("landscape", TRUE, 4000, 3000)
Thumbnail == Image("thumbnail", TRUE, 640, 480)
Junk      == Image("junk", FALSE, 0, 0)
NoFile    == Image("null", FALSE, 0, 0)

\* The files posted when one request is in flight.
AllFiles == {Landscape, Thumbnail, Junk}

\* What the host posts when several requests are in flight: an image with
\* either option record, or bytes that are no image.
Posted ==
    {[image |-> Landscape, options |-> HostDefaults],
     [image |-> Landscape, options |-> NoContrast],
     [image |-> Junk, options |-> NoContrast]}

\* A request: its correlation id, its (transferred) buffer, the bytes of that
\* buffer (and whether they decode as an image), and its options.
Request(id, img, o) ==
    [type |-> "process", id |-> id, buffer |-> id, readable |-> img.readable,
     image |-> img, options |-> o]

----------------------------------------------------------------------------
(* Pure helpers of the worker *)

clamp(v, lo, hi) == Max(lo, Min(hi, v))

\* Math.round of the rational n/d (d > 0): the nearest integer, a tie going
\* up.
round(n, d) == (2 * n + d) \div (2 * d)

ResizeBitmapToMax_stretch(width, height, maxSide) ==
    LET long == Max(width, height)
    IN  <<Max(1, round(width * maxSide, long)), Max(1, round(height * maxSide, long))>>

\* resizeBitmapToMax: the width and height of the canvas the bitmap is drawn
\* on.  scale = Math.min(1, maxSide / long) is kept as the fraction num/den.
resizeBitmapToMax(width, height, maxSide) ==
    LET long == Max(width, height)
        num  == IF maxSide >= long THEN 1 ELSE maxSide
        den  == IF maxSide >= long THEN 1 ELSE long
    IN  <<Max(1, round(width * num, den)), Max(1, round(height * num, den))>>

\* |n / 100| rounded to a nearest integer and saturated to 8 bits.  A value
\* exactly between two integers goes to either, as the floating-point
\* evaluation of the product decides (tie: 0 down, 1 up).
SaturateRound(n, tie) ==
    LET a   == IF n >= 0 THEN n ELSE -n
        q   == a \div 100
        rem == a % 100
    IN  Min(255, IF rem < 50 THEN q ELSE IF rem > 50 THEN q + 1 ELSE q + tie)

ConvertScaleAbs_inverted(v, contrastPct, tie) ==
    SaturateRound(v * (100 - contrastPct), tie)

\* cv.convertScaleAbs(mat, dst, alpha, beta) on one 8-bit element of mat, with
\* alpha = 1 + contrastPct / 100 and beta = 0.
convertScaleAbs(v, contrastPct, tie) ==
    SaturateRound(v * (100 + contrastPct), tie)

\* applyContrastBrightness on one RGBA pixel: convertScaleAbs is given the
\* four-channel Mat, whose every element it converts.
applyContrastBrightness(px, contrastPct, tie) ==
    [i \in 1..4 |-> convertScaleAbs(px[i], contrastPct, tie)]

EnsureCv_reload(cv, outcome) == [promise |-> outcome, loaded |-> 1]

EnsureCv_retry(cv, outcome) ==
    IF cv \notin {"null", "rejected"}
    THEN [promise |-> cv, loaded |-> 0]
    ELSE [promise |-> outcome, loaded |-> 1]

\* ensureCv(): the cached promise when there is one; otherwise a new promise
\* whose executor runs importScripts (outcome: it threw -> "rejected", it
\* returned -> "pending" until onRuntimeInitialized).
ensureCv(cv, outcome) ==
    IF cv # "null"
    THEN [promise |-> cv, loaded |-> 0]
    ELSE [promise |-> outcome, loaded |-> 1]

LoadOutcomes == {"pending", "rejected"}

\* The gated stages of processBuffer, in program order.
GatedStages == <<"denoise", "scratch", "contrast", "saturation", "sharpen">>

\* The condition under which processBuffer calls a stage.
Gate(stage, o) ==
    CASE stage = "denoise"    -> o.denoise > 0
      [] stage = "scratch"    -> o.scratchRemoval > 0
      [] stage = "contrast"   -> o.contrast # 0
      [] stage = "saturation" -> o.saturation # 0
      [] stage = "sharpen"    -> o.sharpen > 0
      [] OTHER                -> TRUE

StageArg_raw(stage, o) ==
    CASE stage = "normalize"  -> IF o.maxSize # 0 THEN o.maxSize ELSE 2000
      [] stage = "denoise"    -> o.denoise
      [] stage = "scratch"    -> o.scratchRemoval
      [] stage = "contrast"   -> o.contrast
      [] stage = "saturation" -> o.saturation
      [] stage = "sharpen"    -> o.sharpen
      [] OTHER                -> 0

\* The argument processBuffer passes to a stage.
StageArg(stage, o) ==
    CASE stage = "normalize"  -> IF o.maxSize # 0 THEN o.maxSize ELSE 2000
      [] stage = "denoise"    -> clamp(o.denoise, 0, 30)
      [] stage = "scratch"    -> clamp(o.scratchRemoval, 0, 100)
      [] stage = "contrast"   -> clamp(o.contrast, -50, 50)
      [] stage = "saturation" -> clamp(o.saturation, -50, 50)
      [] stage = "sharpen"    -> clamp(o.sharpen, 0, 2)
      [] OTHER                -> 0

\* What a stage helper allocates, in order; the last one is its result.
Allocs(stage) ==
    CASE stage = "equalize"   -> <<"ycrcb", "channels", "y", "out">>
      [] stage = "denoise"    -> <<"dst">>
      [] stage = "scratch"    -> <<"gray", "edges", "kernel", "dst">>
      [] stage = "contrast"   -> <<"dst">>
      [] stage = "saturation" -> <<"hsv", "channels", "s", "out">>
      [] stage = "sharpen"    -> <<"blur", "dst">>

Frees_leaky(stage) ==
    CASE stage = "equalize"   -> {"ycrcb", "channels", "y"}
      [] stage = "scratch"    -> {"gray", "kernel"}
      [] stage = "saturation" -> {"hsv", "channels", "s"}
      [] stage = "sharpen"    -> {"blur"}
      [] OTHER                -> {}

\* What a stage helper deletes of its own allocations before it returns.
Frees(stage) ==
    CASE stage = "equalize"   -> {"ycrcb", "channels", "y"}
      [] stage = "scratch"    -> {"gray", "edges", "kernel"}
      [] stage = "saturation" -> {"hsv", "channels", "s"}
      [] stage = "sharpen"    -> {"blur"}
      [] OTHER                -> {}

StageSize_half(stage, size) == <<Max(1, size[1] \div 2), Max(1, size[2] \div 2)>>

\* The size of the raster a stage helper returns, given the size of the one
\* it received: every helper fills a new Mat from cv calls that keep the
\* size of their source.
StageSize(stage, size) == size

\* Whether a stage helper deletes the raster it was given.
FreesInput(stage) == stage = "contrast"

\* The program point that follows a stage in processBuffer.
NextPc(stage) ==
    CASE stage = "normalize"  -> "equalize"
      [] stage = "equalize"   -> "denoise"
      [] stage = "denoise"    -> "scratch"
      [] stage = "scratch"    -> "contrast"
      [] stage = "contrast"   -> "saturation"
      [] stage = "saturation" -> "sharpen"
      [] stage = "sharpen"    -> "encode"
      [] stage = "encode"     -> "awaitEncode"

BitmapFromBlob_lenient(img) == TRUE

\* bitmapFromBlob: whether createImageBitmap resolves (with a bitmap of the
\* image's size) rather than rejects.
bitmapFromBlob(img) == img.readable

\* The value thrown at a program point: embind's BindingError by delete() on
\* a deleted handle, a number (the address of a C++ exception) by a cv call
\* that fails, and an exception of the browser's by importScripts,
\* createImageBitmap, the canvas calls, convertToBlob and arrayBuffer.
Thrown(site, spontaneous) ==
    IF site \in {"init", "decode", "normalize", "encode", "arrayBuffer"} /\
       (spontaneous \/ site \in {"init", "decode"})
    THEN "DOMException"
    ELSE IF spontaneous THEN "number" ELSE "BindingError"

\* How a browser words its exceptions: a text that tells what failed, or a
\* text that goes with the exception's name alone.
Platforms == {"specific", "generic"}

\* The wordings the value thrown at a program point can have: the browser's,
\* which is the same for all of a worker's life, when the browser threw it.
Wordings(site, spontaneous, known) ==
    IF Thrown(site, spontaneous) = "DOMException" /\ known = "unknown"
    THEN Platforms
    ELSE {known}

\* The message property of the value thrown at a program point.
ErrMessage(site, spontaneous, wording) ==
    CASE Thrown(site, spontaneous) = "BindingError" -> "instance already deleted"
      [] Thrown(site, spontaneous) = "number"       -> ""
      [] OTHER -> IF wording = "specific" THEN site ELSE "an exception"

\* err?.message || 'Erro no processamento'
MessageOf(text) == IF text # "" THEN text ELSE "Erro no processamento"

OnThrow_drop(stage) == "replied"

OnThrow_swallow(stage) ==
    IF stage \in {"init", "decode", "encode", "arrayBuffer"} THEN "catch" ELSE NextPc(stage)

\* An exception thrown inside processBuffer rejects its promise; the handler's
\* await rethrows it into the catch clause.
OnThrow(stage) == "catch"

NoHandle == <<0, "none", "none">>
NoSize   == <<0, 0>>
NoBlob   == [src |-> 0, stages |-> <<>>, image |-> NoFile, size |-> NoSize,
             trace |-> <<>>]

Handle(r, stage, site) == <<r, stage, site>>

InitRun ==
    [pc |-> "idle", work |-> NoHandle, trace |-> <<>>, failedAt |-> "none",
     fault |-> FALSE, canvas |-> "none", size |-> NoSize, matSize |-> NoSize,
     blob |-> NoBlob]

StageNames(trace) == [i \in 1..Len(trace) |-> trace[i][1]]

\* The page after its first render: nothing selected, the sliders at their
\* initial values, no request made.  pc is the position of restore():
\* "idle", "reading" (file.arrayBuffer() pending) or "awaiting" (the request
\* is posted and process()'s listener waits for its response).
InitHost ==
    [ready |-> FALSE, file |-> NoFile, inputUrl |-> NoFile, outputUrl |-> NoBlob,
     busy |-> FALSE, error |-> "null", opts |-> HostDefaults,
     pc |-> "idle", id |-> 0, req |-> Request(0, NoFile, HostDefaults),
     sent |-> 0, seen |-> 0]

NoCalc == [fn |-> "none"]

----------------------------------------------------------------------------
(* Initial state: the worker script has been evaluated, which includes the *)
(* ensureCv() call of its last statement.                                  *)

InitWorker ==
    /\ \E outcome \in LoadOutcomes :
          LET e == ensureCv("null", outcome)
          IN  /\ cvReady = e.promise
              /\ loads = e.loaded
    /\ platform = "unknown"
    /\ ensureCalls = 1
    /\ readyChain = "registered"
    /\ readyPosted = 0
    /\ live = {}
    /\ deleted = {}
    /\ misuse = {}
    /\ outbox = <<>>
    /\ cpu = 0
    /\ faults = 0

Init ==
    /\ InitWorker
    /\ host = InitHost
    /\ calc = NoCalc
    /\ inbox = <<>>
    /\ run = [r \in Ids |-> InitRun]

----------------------------------------------------------------------------
(* The host posts a request.  Messages are queued until the handler runs.  *)

Post(o, img) ==
    /\ UNCHANGED <<faults, calc, platform>>
    /\ Len(inbox) < MaxReq
    /\ LET id == Len(inbox) + 1
       IN  /\ inbox' = Append(inbox, Request(id, img, o))
           /\ run' = [run EXCEPT ![id].pc = "queued"]
    /\ UNCHANGED <<cvReady, loads, ensureCalls, readyChain, readyPosted, live,
                   deleted, misuse, outbox, cpu>>

Send == \E p \in Posted : Post(p.options, p.image) /\ UNCHANGED host

----------------------------------------------------------------------------
(* One-time initialization of the runtime and the 'ready' message *)

\* Module.onRuntimeInitialized(): resolve().
RuntimeInitialized ==
    /\ UNCHANGED <<host, calc, platform>>
    /\ UNCHANGED faults
    /\ cpu = 0
    /\ cvReady = "pending"
    /\ cvReady' = "resolved"
    /\ UNCHANGED <<loads, ensureCalls, readyChain, readyPosted, inbox, run, live,
                   deleted, misuse, outbox>>
    /\ UNCHANGED cpu

ThenFires_eager(cv) == cv # "null"

\* .then(f) runs f once the promise is fulfilled.
ThenFires(cv) == cv = "resolved"

\* .catch(g) on the derived promise runs g once the promise is rejected.
CatchFires(cv) == cv = "rejected"

ReadyThen ==
    /\ UNCHANGED <<host, calc, platform>>
    /\ UNCHANGED faults
    /\ cpu = 0
    /\ readyChain = "registered"
    /\ ThenFires(cvReady)
    /\ readyChain' = "then"
    /\ readyPosted' = readyPosted + 1
    /\ UNCHANGED <<cvReady, loads, ensureCalls, inbox, run, live, deleted, misuse,
                   outbox, cpu>>

ReadyCatch ==
    /\ UNCHANGED <<host, calc, platform>>
    /\ UNCHANGED faults
    /\ cpu = 0
    /\ readyChain = "registered"
    /\ CatchFires(cvReady)
    /\ readyChain' = "catch"
    /\ readyPosted' = readyPosted + 1
    /\ UNCHANGED <<cvReady, loads, ensureCalls, inbox, run, live, deleted, misuse,
                   outbox, cpu>>

----------------------------------------------------------------------------
(* The 'message' handler and processBuffer, one action per segment *)

Options(r) == inbox[r].options

ReqId_shared(r) ==
    LET started == {q \in 1..Len(inbox) : run[q].pc # "queued"}
    IN  inbox[CHOOSE q \in started : \A p \in started : p <= q].id

\* The id the handler destructured from its own event.
ReqId(r) == inbox[r].id

\* The handler starts: processBuffer runs up to `await ensureCv()`.
Deliver(r) ==
    /\ UNCHANGED <<host, calc, platform>>
    /\ UNCHANGED faults
    /\ cpu = 0
    /\ run[r].pc = "queued"
    /\ \A q \in Ids : q < r => run[q].pc # "queued"
    /\ \E outcome \in LoadOutcomes :
          LET e == ensureCv(cvReady, outcome)
          IN  /\ cvReady' = e.promise
              /\ loads' = loads + e.loaded
    /\ ensureCalls' = ensureCalls + 1
    /\ run' = [run EXCEPT ![r].pc = "awaitCv"]
    /\ UNCHANGED <<readyChain, readyPosted, inbox, live, deleted, misuse, outbox,
                   cpu>>

\* `await ensureCv()` settles.
ResumeCv(r) ==
    /\ UNCHANGED <<host, calc, platform>>
    /\ UNCHANGED faults
    /\ cpu = 0
    /\ run[r].pc = "awaitCv"
    /\ \/ /\ cvReady = "resolved"
          /\ run' = [run EXCEPT ![r].pc = "awaitBlob"]
       \/ /\ cvReady = "rejected"
          /\ run' = [run EXCEPT ![r].pc = OnThrow("init"), ![r].failedAt = "init"]
    /\ UNCHANGED <<cvReady, loads, ensureCalls, readyChain, readyPosted, inbox,
                   live, deleted, misuse, outbox, cpu>>

\* `await blobFromBuffer(buffer)` settles; bitmapFromBlob is called.
ResumeBlob(r) ==
    /\ UNCHANGED <<host, calc, platform>>
    /\ UNCHANGED faults
    /\ cpu = 0
    /\ run[r].pc = "awaitBlob"
    /\ run' = [run EXCEPT ![r].pc = "awaitBitmap"]
    /\ UNCHANGED <<cvReady, loads, ensureCalls, readyChain, readyPosted, inbox,
                   live, deleted, misuse, outbox, cpu>>

\* `await bitmapFromBlob(blob)` settles: createImageBitmap rejects when the
\* bytes are no image; otherwise the synchronous body of processBuffer starts.
ResumeBitmap(r) ==
    /\ UNCHANGED <<host, calc, platform>>
    /\ UNCHANGED faults
    /\ cpu = 0
    /\ run[r].pc = "awaitBitmap"
    /\ \/ /\ bitmapFromBlob(inbox[r].image)
          /\ run' = [run EXCEPT ![r].pc = "normalize"]
          /\ cpu' = r
       \/ /\ ~bitmapFromBlob(inbox[r].image)
          /\ run' = [run EXCEPT ![r].pc = OnThrow("decode"), ![r].failedAt = "decode"]
          /\ cpu' = 0
    /\ UNCHANGED <<cvReady, loads, ensureCalls, readyChain, readyPosted, inbox,
                   live, deleted, misuse, outbox>>

CpuAfter(r, pc) == IF pc = "catch" THEN 0 ELSE r

\* resizeBitmapToMax and cvMatFromCanvas.
Normalize(r) ==
    /\ UNCHANGED <<host, calc, platform>>
    /\ cpu = r
    /\ run[r].pc = "normalize"
    /\ LET tr == Append(run[r].trace, <<"normalize", StageArg("normalize", Options(r))>>)
           mat == Handle(r, "normalize", "mat")
           sz  == resizeBitmapToMax(inbox[r].image.width, inbox[r].image.height,
                                    StageArg("normalize", Options(r)))
       IN  \/ /\ run' = [run EXCEPT ![r].pc = NextPc("normalize"), ![r].trace = tr,
                                     ![r].canvas = "drawn", ![r].work = mat,
                                     ![r].size = sz, ![r].matSize = sz]
              /\ live' = live \cup {mat}
              /\ cpu' = r
              /\ UNCHANGED faults
           \/ /\ faults < MaxFaults
              /\ faults' = faults + 1
              /\ run' = [run EXCEPT ![r].pc = OnThrow("normalize"), ![r].trace = tr,
                                     ![r].failedAt = "normalize", ![r].fault = TRUE]
              /\ live' = live
              /\ cpu' = CpuAfter(r, OnThrow("normalize"))
    /\ UNCHANGED <<cvReady, loads, ensureCalls, readyChain, readyPosted, inbox,
                   deleted, misuse, outbox>>

\* The handles a helper has allocated when it throws after its k-th allocation.
Allocated(r, stage, k) == {Handle(r, stage, Allocs(stage)[i]) : i \in 1..k}

\* A stage that processBuffer calls: the helper runs (it may throw at any of
\* its cv calls), then processBuffer deletes the raster the stage consumed
\* and takes the helper's result as the working raster.  delete() on a handle
\* that is already deleted throws (embind's BindingError).
RunStage(r, stage) ==
    LET n      == Len(Allocs(stage))
        input  == run[r].work
        tr     == Append(run[r].trace, <<stage, StageArg(stage, Options(r))>>)
        result == Handle(r, stage, Allocs(stage)[n])
        freed  == {Handle(r, stage, s) : s \in Frees(stage)}
                    \cup (IF FreesInput(stage) THEN {input} ELSE {})
        live1  == (live \cup Allocated(r, stage, n)) \ freed
    IN  \/ \* the helper throws after k allocations
           \E k \in 0..n :
              /\ faults < MaxFaults
              /\ faults' = faults + 1
              /\ run' = [run EXCEPT ![r].pc = OnThrow(stage), ![r].trace = tr,
                                    ![r].failedAt = stage, ![r].fault = TRUE]
              /\ live' = live \cup Allocated(r, stage, k)
              /\ cpu' = CpuAfter(r, OnThrow(stage))
              /\ UNCHANGED <<deleted, misuse>>
        \/ \* the helper returns and the consumed raster is deleted
           /\ input \in live1
           /\ run' = [run EXCEPT ![r].pc = NextPc(stage), ![r].trace = tr,
                                 ![r].work = result,
                                 ![r].matSize = StageSize(stage, run[r].matSize)]
           /\ live' = live1 \ {input}
           /\ deleted' = deleted \cup freed \cup {input}
           /\ cpu' = r
           /\ UNCHANGED <<misuse, faults>>
        \/ \* the helper returns and the consumed raster is already deleted
           /\ input \notin live1
           /\ run' = [run EXCEPT ![r].pc = OnThrow(stage), ![r].trace = tr,
                                 ![r].failedAt = stage]
           /\ live' = live1
           /\ deleted' = deleted \cup freed
           /\ misuse' = misuse \cup {input}
           /\ cpu' = CpuAfter(r, OnThrow(stage))
           /\ UNCHANGED faults

\* A gated stage whose condition is false: nothing is called.
SkipStage(r, stage) ==
    /\ run' = [run EXCEPT ![r].pc = NextPc(stage)]
    /\ UNCHANGED <<live, deleted, misuse, cpu, faults>>

\* equalizeLuma(mat); mat.delete().
Equalize(r) ==
    /\ UNCHANGED <<host, calc, platform>>
    /\ cpu = r
    /\ run[r].pc = "equalize"
    /\ RunStage(r, "equalize")
    /\ UNCHANGED <<cvReady, loads, ensureCalls, readyChain, readyPosted, inbox,
                   outbox>>

\* One of the five `if (...) { ... }` blocks of processBuffer.
Gated(r, stage) ==
    /\ UNCHANGED <<host, calc, platform>>
    /\ cpu = r
    /\ run[r].pc = stage
    /\ IF Gate(stage, Options(r)) THEN RunStage(r, stage) ELSE SkipStage(r, stage)
    /\ UNCHANGED <<cvReady, loads, ensureCalls, readyChain, readyPosted, inbox,
                   outbox>>

Denoise(r)    == Gated(r, "denoise")
Scratch(r)    == Gated(r, "scratch")
Contrast(r)   == Gated(r, "contrast")
Saturation(r) == Gated(r, "saturation")
Sharpen(r)    == Gated(r, "sharpen")

\* putMatToCanvas(work, canvas); work.delete(); canvas.convertToBlob(...) is
\* called and awaited.
Encode(r) ==
    /\ UNCHANGED <<host, calc, platform>>
    /\ cpu = r
    /\ run[r].pc = "encode"
    /\ LET tr   == Append(run[r].trace, <<"encode", 0>>)
           work == run[r].work
       IN  \/ \* putMatToCanvas throws
              /\ faults < MaxFaults
              /\ faults' = faults + 1
              /\ run' = [run EXCEPT ![r].pc = OnThrow("encode"), ![r].trace = tr,
                                    ![r].failedAt = "encode", ![r].fault = TRUE]
              /\ UNCHANGED <<live, deleted, misuse>>
           \/ /\ work \in live
              /\ run' = [run EXCEPT ![r].pc = NextPc("encode"), ![r].trace = tr,
                                    ![r].canvas = "restored", ![r].work = NoHandle]
              /\ live' = live \ {work}
              /\ deleted' = deleted \cup {work}
              /\ UNCHANGED <<misuse, faults>>
           \/ /\ work \notin live
              /\ run' = [run EXCEPT ![r].pc = OnThrow("encode"), ![r].trace = tr,
                                    ![r].failedAt = "encode"]
              /\ misuse' = misuse \cup {work}
              /\ UNCHANGED <<live, deleted, faults>>
    /\ cpu' = 0
    /\ UNCHANGED <<cvReady, loads, ensureCalls, readyChain, readyPosted, inbox,
                   outbox>>

\* `await canvas.convertToBlob(...)` settles; processBuffer returns the blob
\* and the handler calls out.arrayBuffer().
EncodeSettles(r) ==
    /\ UNCHANGED <<host, calc, platform>>
    /\ cpu = 0
    /\ run[r].pc = "awaitEncode"
    /\ \/ /\ run' = [run EXCEPT ![r].pc = "awaitArrayBuffer",
                                 ![r].blob = [src |-> inbox[r].buffer,
                                              stages |-> StageNames(run[r].trace),
                                              image |-> inbox[r].image,
                                              size |-> run[r].size,
                                              trace |-> run[r].trace]]
          /\ UNCHANGED faults
       \/ /\ faults < MaxFaults
          /\ faults' = faults + 1
          /\ run' = [run EXCEPT ![r].pc = OnThrow("encode"), ![r].failedAt = "encode",
                                 ![r].fault = TRUE]
    /\ UNCHANGED <<cvReady, loads, ensureCalls, readyChain, readyPosted, inbox,
                   live, deleted, misuse, outbox, cpu>>

\* `await out.arrayBuffer()` settles; on success the handler posts 'done'.
PostDone(r) ==
    /\ UNCHANGED <<host, calc, platform>>
    /\ cpu = 0
    /\ run[r].pc = "awaitArrayBuffer"
    /\ \/ /\ outbox' = Append(outbox, [type |-> "done", id |-> ReqId(r),
                                        out |-> run[r].blob])
          /\ run' = [run EXCEPT ![r].pc = "replied"]
          /\ UNCHANGED faults
       \/ /\ faults < MaxFaults
          /\ faults' = faults + 1
          /\ run' = [run EXCEPT ![r].pc = OnThrow("arrayBuffer"),
                                 ![r].failedAt = "arrayBuffer", ![r].fault = TRUE]
          /\ UNCHANGED outbox
    /\ UNCHANGED <<cvReady, loads, ensureCalls, readyChain, readyPosted, inbox,
                   live, deleted, misuse, cpu>>

\* The catch clause of the handler posts 'error'.
PostError(r) ==
    /\ UNCHANGED <<host, calc>>
    /\ UNCHANGED faults
    /\ cpu = 0
    /\ run[r].pc = "catch"
    /\ \E wording \in Wordings(run[r].failedAt, run[r].fault, platform) :
          /\ outbox' = Append(outbox,
                [type |-> "error", id |-> ReqId(r), out |-> NoBlob,
                 message |-> MessageOf(ErrMessage(run[r].failedAt, run[r].fault,
                                                  wording))])
          /\ platform' = wording
    /\ run' = [run EXCEPT ![r].pc = "replied"]
    /\ UNCHANGED <<cvReady, loads, ensureCalls, readyChain, readyPosted, inbox,
                   live, deleted, misuse, cpu>>

----------------------------------------------------------------------------
(* The page (src/app/page.tsx): useRestoreWorker and Page.  Every event    *)
(* handler runs to completion and React re-renders before the next event,  *)
(* so a handler sees the state the previous ones left.                     *)

\* The files the user selects.
HostFiles == {Landscape, Thumbnail}

Disabled_whileBusy(h) == ~h.ready \/ h.file = NoFile

\* const disabled = !ready || !file || busy
Disabled(h) == ~h.ready \/ h.file = NoFile \/ h.busy

\* Whether process()'s listener is registered: from the call of process()
\* until the promise settles.
Listening(h) == h.pc \in {"reading", "awaiting"}

\* The worker's 'ready' message reaches useRestoreWorker's listener.
HostReady ==
    /\ readyPosted > 0
    /\ ~host.ready
    /\ host' = [host EXCEPT !.ready = TRUE]
    /\ UNCHANGED <<cvReady, loads, ensureCalls, readyChain, readyPosted, inbox, run,
                   live, deleted, misuse, outbox, cpu, faults, calc, platform>>

\* onFile(f): a file is dropped or chosen.
OnFile(f) ==
    /\ host' = [host EXCEPT !.file = f, !.outputUrl = NoBlob, !.error = "null",
                            !.inputUrl = f]
    /\ UNCHANGED <<cvReady, loads, ensureCalls, readyChain, readyPosted, inbox, run,
                   live, deleted, misuse, outbox, cpu, faults, calc, platform>>

SelectFile == \E f \in HostFiles : OnFile(f)

\* A slider is moved.
SetOpts(o) ==
    /\ host.opts # o
    /\ host' = [host EXCEPT !.opts = o]
    /\ UNCHANGED <<cvReady, loads, ensureCalls, readyChain, readyPosted, inbox, run,
                   live, deleted, misuse, outbox, cpu, faults, calc, platform>>

MoveSlider == \E o \in Presets : SetOpts(o)

\* The button is clicked: restore() runs up to `await process(file, opts)`,
\* and process() up to file.arrayBuffer().
Restore ==
    /\ ~Disabled(host)
    /\ host.file # NoFile
    /\ host.sent < MaxReq
    /\ host' = [host EXCEPT !.busy = TRUE, !.error = "null", !.pc = "reading",
                            !.id = host.sent + 1,
                            !.req = Request(host.sent + 1, host.file, host.opts),
                            !.sent = host.sent + 1]
    /\ UNCHANGED <<cvReady, loads, ensureCalls, readyChain, readyPosted, inbox, run,
                   live, deleted, misuse, outbox, cpu, faults, calc, platform>>

\* file.arrayBuffer() resolves: worker.postMessage(msg, [buffer]).
HostPost ==
    /\ host.pc = "reading"
    /\ Post(host.req.options, host.req.image)
    /\ host' = [host EXCEPT !.pc = "awaiting"]

\* The next 'done' or 'error' message of the worker is dispatched to the
\* page.  process()'s listener settles the promise when the message answers
\* its id, and restore() continues: setOutputUrl or setError, then
\* setBusy(false).
HostReceive ==
    /\ host.seen < Len(outbox)
    /\ LET m == outbox[host.seen + 1]
       IN  host' =
             IF Listening(host) /\ m.id = host.id
             THEN IF m.type = "done"
                  THEN [host EXCEPT !.seen = host.seen + 1, !.pc = "idle",
                                    !.busy = FALSE, !.outputUrl = m.out]
                  ELSE [host EXCEPT !.seen = host.seen + 1, !.pc = "idle",
                                    !.busy = FALSE, !.error = m.message]
             ELSE [host EXCEPT !.seen = host.seen + 1]
    /\ UNCHANGED <<cvReady, loads, ensureCalls, readyChain, readyPosted, inbox, run,
                   live, deleted, misuse, outbox, cpu, faults, calc, platform>>

Host ==
    \/ HostReady
    \/ SelectFile
    \/ MoveSlider
    \/ Restore
    \/ HostPost
    \/ HostReceive

----------------------------------------------------------------------------
(* The pure helpers, evaluated on inputs of their own *)

\* Largest width, height and maxSide of the exhaustive part of the inputs.
MaxDim == 12

Dims     == 1..MaxDim \cup {3000, 4000}
MaxSides == 1..MaxDim \cup {2000}

\* resizeBitmapToMax(bitmap, maxSide) on a bitmap of the given size.
CalcResize(w, h, m) ==
    /\ calc' = [fn |-> "resize", width |-> w, height |-> h, maxSide |-> m,
                out |-> resizeBitmapToMax(w, h, m)]
    /\ UNCHANGED <<cvReady, loads, ensureCalls, readyChain, readyPosted, inbox, run,
                   live, deleted, misuse, outbox, cpu, faults, host, platform>>

Resize ==
    /\ calc = NoCalc
    /\ \E w \in Dims, h \in Dims, m \in MaxSides : CalcResize(w, h, m)

\* Colour samples around the channel midpoint and at both ends; alpha values.
Samples   == {0, 1, 100, 127, 128, 129, 200, 255}
Alphas    == {0, 100, 255}
Pixels    == {<<v, v, v, a>> : v \in Samples, a \in Alphas}
Contrasts == -50..50

\* applyContrastBrightness on a raster of one pixel.
CalcContrast(px, pct, tie) ==
    /\ calc' = [fn |-> "contrast", px |-> px, pct |-> pct,
                out |-> applyContrastBrightness(px, pct, tie),
                moved |-> FALSE, prevPct |-> pct,
                prevOut |-> applyContrastBrightness(px, pct, tie)]
    /\ UNCHANGED <<cvReady, loads, ensureCalls, readyChain, readyPosted, inbox, run,
                   live, deleted, misuse, outbox, cpu, faults, host, platform>>

\* The same pixel again, with another value of the contrast parameter.
MoveContrast(pct, tie) ==
    /\ calc' = [calc EXCEPT !.pct = pct,
                            !.out = applyContrastBrightness(calc.px, pct, tie),
                            !.moved = TRUE, !.prevPct = calc.pct,
                            !.prevOut = calc.out]
    /\ UNCHANGED <<cvReady, loads, ensureCalls, readyChain, readyPosted, inbox, run,
                   live, deleted, misuse, outbox, cpu, faults, host, platform>>

ContrastOnce ==
    /\ calc = NoCalc
    /\ \E px \in Pixels, pct \in Contrasts, tie \in {0, 1} : CalcContrast(px, pct, tie)

ContrastAgain ==
    /\ calc.fn = "contrast"
    /\ ~calc.moved
    /\ \E pct \in Contrasts, tie \in {0, 1} : MoveContrast(pct, tie)

----------------------------------------------------------------------------
(* Specifications *)

Handler(r) ==
    \/ Deliver(r)
    \/ ResumeCv(r)
    \/ ResumeBlob(r)
    \/ ResumeBitmap(r)
    \/ Normalize(r)
    \/ Equalize(r)
    \/ Denoise(r)
    \/ Scratch(r)
    \/ Contrast(r)
    \/ Saturation(r)
    \/ Sharpen(r)
    \/ Encode(r)
    \/ EncodeSettles(r)
    \/ PostDone(r)
    \/ PostError(r)

Worker ==
    \/ RuntimeInitialized
    \/ ReadyThen
    \/ ReadyCatch
    \/ \E r \in Ids : Handler(r)

Next == Send \/ Worker

\* The worker with up to MaxReq requests in flight.
Spec == Init /\ [][Next]_vars

\* The event loop runs every task and microtask that is ready, and the
\* runtime, once loaded, finishes its initialization.
FairSpec == Spec /\ WF_vars(Worker)

\* One request, with every combination of option values.
InitOne ==
    /\ InitWorker
    /\ host = InitHost
    /\ calc = NoCalc
    /\ \E o \in AllOptions, img \in AllFiles :
          inbox = <<Request(1, img, o)>>
    /\ run = [r \in Ids |-> IF r = 1 THEN [InitRun EXCEPT !.pc = "queued"] ELSE InitRun]

OneSpec == InitOne /\ [][Worker]_vars

\* The page and its worker: every request is one the page has made.
HostSpec == Init /\ [][Host \/ Worker]_vars

\* The pure helpers, each applied to inputs drawn from bounded sets.
Calc == Resize \/ ContrastOnce \/ ContrastAgain

\* The worker plays no part: its script has been evaluated, nothing more.
InitPure == Init /\ cvReady = "pending"

PureSpec == InitPure /\ [][Calc]_vars

----------------------------------------------------------------------------
(* Properties *)

Last(seq) == seq[Len(seq)]

\* The responses posted with a given correlation id.
Responses(id) == {i \in 1..Len(outbox) : outbox[i].id = id}

Succeeded(r) == \E i \in Responses(r) : outbox[i].type = "done"
Failed(r)    == \E i \in Responses(r) : outbox[i].type = "error"

\* The cv handles a run has allocated and not deleted.
LiveOf(r) == {h \in live : h[1] = r}

\* C1: every 'process' request posted to the worker eventually has exactly
\* one response with its correlation id, 'done' or 'error'; at no time does
\* an id have two responses, or a response without a request.
C1_OneResponse ==
    /\ \A r \in Ids : [](r <= Len(inbox) => <>(Cardinality(Responses(r)) = 1))
    /\ [](\A r \in Ids : /\ Cardinality(Responses(r)) <= 1
                         /\ Responses(r) # {} => r <= Len(inbox))

\* A request has succeeded and another one has failed.
C1_Witness ==
    \E i, j \in 1..Len(outbox) : outbox[i].type = "done" /\ outbox[j].type = "error"

\* The stage list the specification gives for an options record: a gated
\* stage runs iff its parameter, clamped to its range, is not 0.
ClaimedStages(o) ==
    LET Runs(stage) == StageArg(stage, o) # 0
    IN  <<"normalize", "equalize">> \o SelectSeq(GatedStages, Runs) \o <<"encode">>

\* C2: a run in which no call fails by itself (readable input, runtime
\* initialized) executes normalize, equalize, the gated stages whose
\* parameter is not neutral, and encode, in that order.
C2_StageOrder ==
    \A r \in Ids :
        (/\ run[r].pc = "replied"
         /\ ~run[r].fault
         /\ inbox[r].readable
         /\ cvReady = "resolved")
        => StageNames(run[r].trace) = ClaimedStages(Options(r))

\* C3: once a step of a run has failed, the failed step is the last one the
\* run executed, the run is in (or past) the catch clause, no blob was
\* produced (unless the failure is that of reading the blob) and no 'done'
\* carries its id.
C3_NoAdvance ==
    \A r \in Ids :
        run[r].failedAt # "none" =>
            /\ run[r].pc \in {"catch", "replied"}
            /\ IF run[r].failedAt \in {"init", "decode"}
               THEN run[r].trace = <<>>
               ELSE /\ run[r].trace # <<>>
                    /\ Last(run[r].trace)[1] =
                          (IF run[r].failedAt = "arrayBuffer" THEN "encode"
                           ELSE run[r].failedAt)
            /\ run[r].failedAt # "arrayBuffer" => run[r].blob = NoBlob
            /\ ~Succeeded(r)

\* The defect-removal stage failed and the failure response was posted.
C3_Witness ==
    \E r \in Ids : run[r].failedAt = "scratch" /\ run[r].pc = "replied" /\ Failed(r)

\* C4: when a run has ended (its response is posted), every cv handle it
\* allocated has been deleted.
C4_AllReleased ==
    \A r \in Ids : run[r].pc = "replied" => LiveOf(r) = {}

\* What makes a request fail by itself: unreadable bytes, a runtime that did
\* not load, a call of its own run that failed, or a contrast stage (whose
\* input is deleted twice).
OwnCause(r) ==
    \/ ~inbox[r].readable
    \/ cvReady = "rejected"
    \/ run[r].fault
    \/ Gate("contrast", Options(r))

StageBoundaries ==
    {"equalize", "denoise", "scratch", "contrast", "saturation", "sharpen", "encode"}

\* C7: between two stages of a run exactly one cv handle of the run is live,
\* and it is the working raster.
C7_OneLiveRaster ==
    \A r \in Ids :
        run[r].pc \in StageBoundaries => LiveOf(r) = {run[r].work}

\* Five stages have replaced the working raster and encode is next.
C7_Witness ==
    \E r \in Ids :
        /\ run[r].pc = "encode"
        /\ Len(run[r].trace) = 6
        /\ LiveOf(r) = {run[r].work}
        /\ Cardinality(deleted) >= 5

\* C8: every response names a request that was posted; a 'done' carries the
\* image made from the buffer of the request it names, by the stages that
\* request's run executed; a run works on rasters it allocated itself.
C8_Isolation ==
    /\ \A i \in 1..Len(outbox) :
          LET m == outbox[i]
          IN  /\ m.id \in 1..Len(inbox)
              /\ Cardinality(Responses(m.id)) = 1
              /\ m.type = "done" =>
                    /\ m.out.src = inbox[m.id].buffer
                    /\ m.out.stages = StageNames(run[m.id].trace)
                    /\ m.out.stages = ClaimedStages(inbox[m.id].options)
    /\ \A r \in Ids : run[r].work # NoHandle => run[r].work[1] = r

\* Two runs overlapped and the second request was answered first.
C8_Witness ==
    /\ Len(outbox) = 2
    /\ outbox[1].type = "done" /\ outbox[1].id = 2
    /\ outbox[2].type = "done" /\ outbox[2].id = 1

\* C9: importScripts is invoked once, by the first ensureCv() call; every
\* later call leaves the promise and the load count as they are.
C9_LoadOnce ==
    /\ [](loads = 1)
    /\ [][ensureCalls' # ensureCalls => cvReady' = cvReady /\ loads' = loads]_vars

\* ensureCv() has been called by the script and by two requests while the
\* initialization was still pending.
C9_Witness == ensureCalls >= 3 /\ cvReady = "pending" /\ loads = 1

\* The declared range of a gated stage's parameter.
DeclaredRange(stage) ==
    CASE stage = "denoise"    -> 0..30
      [] stage = "scratch"    -> 0..100
      [] stage = "contrast"   -> -50..50
      [] stage = "saturation" -> -50..50
      [] stage = "sharpen"    -> 0..2

Nearest(out, x, m, long) ==
    \/ out = 1 /\ 2 * x * m < long
    \/ 2 * out * long - long <= 2 * x * m /\ 2 * x * m <= 2 * out * long + long

\* C11: for width, height >= 1 and maxSide >= 1 the normalizer's output is
\* max(1, round(width * scale)) by max(1, round(height * scale)) with
\* scale = min(1, maxSide / long edge): it never upscales, it keeps the size
\* when the long edge fits, and otherwise the long edge becomes maxSide and
\* the short edge is within one pixel of the aspect-preserving value
\* (4000 x 3000 at maxSide 2000 becomes 2000 x 1500).
C11_Resize ==
    calc.fn = "resize" =>
        LET w    == calc.width
            h    == calc.height
            m    == calc.maxSide
            ow   == calc.out[1]
            oh   == calc.out[2]
            long == Max(w, h)
        IN  /\ 1 <= ow /\ ow <= w
            /\ 1 <= oh /\ oh <= h
            /\ m >= long => calc.out = <<w, h>>
            /\ m < long =>
                  /\ Max(ow, oh) = m
                  /\ Nearest(ow, w, m, long)
                  /\ Nearest(oh, h, m, long)
                  /\ -long <= Min(ow, oh) * long - Min(w, h) * m
                  /\ Min(ow, oh) * long - Min(w, h) * m <= long
            /\ (w = 4000 /\ h = 3000 /\ m = 2000) => calc.out = <<2000, 1500>>

\* A 4000 x 3000 bitmap has been normalized to a long edge of 2000.
C11_Witness ==
    /\ calc.fn = "resize"
    /\ calc.width = 4000 /\ calc.height = 3000 /\ calc.maxSide = 2000
    /\ calc.out[1] = 2000

\* The size the normalizer computes for a request.
NormalSize(q) ==
    resizeBitmapToMax(q.image.width, q.image.height, StageArg("normalize", q.options))

\* C12: for all options and every combination of executed stages, the
\* canvas, the working raster after every stage, the encoded blob and the
\* 'done' response have exactly the width and height the normalizer
\* computed; the output never has the original size when the long edge
\* exceeded maxSide.
C12_Dimensions ==
    \A r \in 1..Len(inbox) :
        LET q == inbox[r]
        IN  /\ run[r].size \in {NoSize, NormalSize(q)}
            /\ run[r].work # NoHandle => run[r].matSize = NormalSize(q)
            /\ run[r].blob # NoBlob => run[r].blob.size = NormalSize(q)
            /\ \A i \in Responses(r) :
                  outbox[i].type = "done" =>
                     /\ outbox[i].out.size = NormalSize(q)
                     /\ Max(q.image.width, q.image.height)
                           > StageArg("normalize", q.options)
                        => outbox[i].out.size # <<q.image.width, q.image.height>>

\* A 4000 x 3000 image went through denoise, scratch removal, saturation and
\* sharpening at maxSize 800 and was delivered as 800 x 600.
C12_Witness ==
    \E i \in 1..Len(outbox) :
        /\ outbox[i].type = "done"
        /\ outbox[i].out.image = Landscape
        /\ outbox[i].out.size = <<800, 600>>
        /\ outbox[i].out.stages =
              <<"normalize", "equalize", "denoise", "scratch", "saturation",
                "sharpen", "encode">>

\* C13: the contrast stage leaves the alpha channel of every pixel
\* unchanged, for every contrast value in -50..50 and every alpha value;
\* only R, G and B are scaled.
C13_AlphaKept ==
    calc.fn = "contrast" => calc.out[4] = calc.px[4]

\* Whether a sample times the gain stays within 8 bits.
Unclamped(v, pct) == v * (100 + pct) <= 25500

\* C14 (as claimed): raising the contrast parameter strictly increases the
\* output of a sample above the channel midpoint and strictly decreases the
\* output of a sample below it, where no clamping occurs.
C14_Monotone ==
    (calc.fn = "contrast" /\ calc.moved /\ calc.prevPct < calc.pct) =>
        \A i \in 1..3 :
            Unclamped(calc.px[i], calc.pct) =>
                /\ calc.px[i] >= 128 => calc.out[i] > calc.prevOut[i]
                /\ calc.px[i] <= 127 => calc.out[i] < calc.prevOut[i]

\* C14 (amended): raising the contrast parameter strictly increases the
\* output of a sample above the channel midpoint, where no clamping occurs,
\* and never decreases the output of any sample, below the midpoint
\* included: the transform is a gain, not a pivot about the midpoint.
C14_GainMonotone ==
    (calc.fn = "contrast" /\ calc.moved /\ calc.prevPct < calc.pct) =>
        \A i \in 1..3 :
            /\ calc.out[i] >= calc.prevOut[i]
            /\ (Unclamped(calc.px[i], calc.pct) /\ calc.px[i] >= 128)
                  => calc.out[i] > calc.prevOut[i]

\* The contrast was raised on a sample below the midpoint, and its output
\* went up.
C14_Witness ==
    /\ calc.fn = "contrast" /\ calc.moved /\ calc.prevPct < calc.pct
    /\ calc.px[1] = 100
    /\ calc.out[1] > calc.prevOut[1]

\* The cv handles a run has ever allocated.
HandlesOf(r) == {h \in live \cup deleted \cup misuse : h[1] = r}

Content(m) ==
    <<m.type, m.out.image, m.out.size, m.out.trace,
      IF m.type = "error" THEN m.message ELSE "">>

\* The stages a run executed, where it stopped, and what it answered.
Outcome(r) ==
    <<run[r].trace, run[r].failedAt, {Content(outbox[i]) : i \in Responses(r)}>>

\* A request is answered and none of the calls of its run failed
\* spontaneously.
Settled(r) == r <= Len(inbox) /\ run[r].pc = "replied" /\ ~run[r].fault

C19_ReleasedOnce ==
    /\ misuse = {}
    /\ \A r \in 1..Len(inbox) :
          run[r].pc \in {"equalize", "denoise", "scratch", "contrast", "saturation",
                         "sharpen", "encode"}
          => run[r].work \in live

\* The requests the page has posted and whose response it has not received.
InFlight ==
    {r \in 1..Len(inbox) : \A i \in Responses(r) : i > host.seen}

\* C18: the page posts a 'process' request only after it has received
\* 'ready' and only when no earlier request still awaits its response: at
\* most one request is in flight, and there is none before 'ready'.
C18_OneInFlight ==
    /\ Cardinality(InFlight) <= 1
    /\ inbox # <<>> => host.ready /\ readyPosted > 0
    /\ host.pc = "reading" => InFlight = {} /\ host.ready
    /\ host.sent - Len(inbox) \in {0, 1}

\* The page has received the answer to its first request and has posted a
\* second one, which is in flight.
C18_Witness ==
    /\ Len(inbox) = 2
    /\ host.seen = 1
    /\ InFlight = {2}

\* C20: whenever the page shows a restored image, it is the result of a
\* request made for the file that is selected now.
C20_OutputOfSelected ==
    host.outputUrl # NoBlob => host.outputUrl.image = host.file

====
